---- MODULE Spec2Model ----
(***************************************************************************)
(* Model of scripts/voice_streaming.py: the transcript producer            *)
(* (get_transcript), the asyncio queue, the time-windowed collector        *)
(* (TranscriptCollector + process_queue), the HTTP dispatch and the        *)
(* signal-driven shutdown of main_async.                                   *)
(*                                                                         *)
(* Time is counted in ticks of 1/TicksPerSecond second.  Fragments carry a *)
(* ghost id (their enqueue number) so that two fragments with the same     *)
(* text stay distinguishable.                                              *)
(***************************************************************************)
EXTENDS Integers, Sequences, FiniteSets, TLC

\* ---- bounds of the model ------------------------------------------------
TicksPerSecond == 2
MaxTime == 13
MaxFragments == 2
MaxSignals == 2

\* ---- constants of the program and its runtime ---------------------------
\* timedelta.seconds is the seconds component of a normalised timedelta
SecondsPerDay == 86400

\* the i-th utterance the source recognises; every Transcript event carries
\* either it or "" (an empty recognition result)
Utterance(i) == IF i % 2 = 1 THEN "hello" ELSE "world"
\* --batch-size values the run may be started with
BatchSizes == {1, 5}
\* outcomes of one session.post
Outcomes == {"ok", "timeout", "client_error"}
Failures == {"timeout", "client_error"}
\* what the collector reports of an ended post: the response status, or one
\* of the two error messages
Report(outcome) == IF outcome \in Failures THEN "failed" ELSE "ok"
Reports == {Report(outcome) : outcome \in Outcomes}

VARIABLES
    now,          \* wall clock, in ticks
    batch_size,   \* settings.BATCH_SIZE
    tpc,          \* position of get_transcript
    micOn,        \* Microphone started and not finished
    connOpen,     \* dg_connection started and not finished
    handlers,     \* loop signal handlers for SIGINT/SIGTERM installed
    srcEvent,     \* get_transcript's shutdown_event
    stopEvent,    \* main_async's shutdown_event (the collector's)
    mpc,          \* position of main_async
    abort,        \* how the process was ended by an unhandled signal
    queue,        \* sentence_queue
    buffer,       \* transcript_collector.transcript_parts
    cpc,          \* position of process_queue
    batches,      \* every batch built so far, in emission order
    enq,          \* every fragment put on the queue so far, in order
    signals,      \* number of signals delivered
    calls,        \* how often each teardown step ran
    stopSeen,     \* what the collector held when it observed the stop event
    latePoll,     \* the poll cycle just ended found the buffer empty after a
                  \* full window
    errorSeen     \* on_error has handled an Error event

vars == <<now, batch_size, tpc, micOn, connOpen, handlers, srcEvent,
          stopEvent, mpc, abort, queue, buffer, cpc, batches, enq,
          signals, calls, stopSeen, latePoll, errorSeen>>

sourceVars == <<tpc, micOn, connOpen, handlers, srcEvent>>
collectorVars == <<buffer, cpc, batches, stopSeen, latePoll>>

\* ---- helpers ------------------------------------------------------------
Last(s) == s[Len(s)]
Front(s) == SubSeq(s, 1, Len(s) - 1)

RECURSIVE Join(_, _)
\* sep.join(strs)
Join(sep, strs) ==
    IF Len(strs) = 0 THEN ""
    ELSE IF Len(strs) = 1 THEN strs[1]
    ELSE strs[1] \o sep \o Join(sep, Tail(strs))

PartTexts(parts) == [i \in 1..Len(parts) |-> parts[i].text]
PartIds(parts) == [i \in 1..Len(parts) |-> parts[i].id]

\* (a - b).seconds for datetimes a >= b given in ticks
TimedeltaSeconds(d) == (d \div TicksPerSecond) % SecondsPerDay

\* strftime("%Y-%m-%d %H:%M:%S"): the time cut to whole seconds
Strftime(t) == t \div TicksPerSecond

\* ---- TranscriptCollector ------------------------------------------------
SentenceChunk(msg, t) == [id |-> msg.id, text |-> msg.text, created_at |-> t]

\* reset that leaves the list as it is
resetKeep(parts) == parts

reset(parts) == <<>>

\* add_part inserting at the front of the list
add_partFront(parts, msg, t) == <<SentenceChunk(msg, t)>> \o parts

add_part(parts, msg, t) == Append(parts, SentenceChunk(msg, t))

\* length_check without the guard on an empty list
length_checkNoGuard(parts, t, size) ==
    IF Len(parts) >= 1
    THEN TimedeltaSeconds(t - parts[1].created_at) > size
    ELSE TRUE

length_check(parts, t, size) ==
    IF Len(parts) >= 1
    THEN TimedeltaSeconds(t - parts[1].created_at) > size
    ELSE FALSE

\* get_full_transcript joining with a space
get_full_transcriptSpace(parts, t) ==
    [text |-> Join(" ", PartTexts(parts)),
     end_time |-> IF parts # <<>> THEN Strftime(Last(parts).created_at)
                  ELSE Strftime(t),
     start_time |-> IF parts # <<>> THEN Strftime(parts[1].created_at)
                    ELSE Strftime(t)]

get_full_transcript(parts, t) ==
    [text |-> Join("\n", PartTexts(parts)),
     end_time |-> IF parts # <<>> THEN Strftime(Last(parts).created_at)
                  ELSE Strftime(t),
     start_time |-> IF parts # <<>> THEN Strftime(parts[1].created_at)
                    ELSE Strftime(t)]

\* ---- the process ----------------------------------------------------------
\* the process has neither returned from main_async, nor left it through an
\* exception, nor been ended by a signal
Alive == abort = "none" /\ mpc \notin {"returned", "raised"}

\* the event loop can run another callback or resume another coroutine: the
\* collector is not in the stretch without await that leads from the end of
\* an iteration (or from the start of its task) to its loop test
Yielded == Alive /\ cpc # "top"

Init ==
    /\ now = 0
    /\ batch_size \in BatchSizes
    /\ tpc = "start"
    /\ micOn = FALSE
    /\ connOpen = FALSE
    /\ handlers = FALSE
    /\ srcEvent = FALSE
    /\ stopEvent = FALSE
    /\ mpc = "await_transcript"
    /\ abort = "none"
    /\ queue = <<>>
    /\ buffer = <<>>
    /\ cpc = "top"
    /\ batches = <<>>
    /\ enq = <<>>
    /\ signals = 0
    /\ calls = [mic_finish |-> 0, conn_finish |-> 0, stop_set |-> 0]
    /\ stopSeen = [seen |-> FALSE, buffer |-> <<>>, nbatches |-> 0]
    /\ latePoll = FALSE
    /\ errorSeen = FALSE

\* the clock advances
Tick ==
    /\ Alive
    /\ now < MaxTime
    /\ now' = now + 1
    /\ UNCHANGED <<batch_size, sourceVars, stopEvent, mpc, abort, queue,
                   collectorVars, enq, signals, calls, errorSeen>>

\* ---- get_transcript -------------------------------------------------------
\* await dg_connection.start(options) returns; microphone.start();
\* loop.add_signal_handler for SIGINT and SIGTERM; shutdown_event.wait()
Connect ==
    /\ Yielded
    /\ tpc = "start"
    /\ connOpen' = TRUE
    /\ micOn' = TRUE
    /\ handlers' = TRUE
    /\ tpc' = "wait"
    /\ UNCHANGED <<now, batch_size, srcEvent, stopEvent, mpc, abort, queue,
                   collectorVars, enq, signals, calls, errorSeen>>

\* await dg_connection.start(options) raises: the except clause prints the
\* error and the finally block, reading the unbound name loop, raises
\* UnboundLocalError, with which the task ends
ConnectFail ==
    /\ Yielded
    /\ tpc = "start"
    /\ tpc' = "failed"
    /\ UNCHANGED <<now, batch_size, micOn, connOpen, handlers, srcEvent,
                   stopEvent, mpc, abort, queue, collectorVars, enq, signals,
                   calls, errorSeen>>

\* on_message putting on a queue of capacity one: the put waits while the
\* queue is full
OnMessageBounded(sentence) ==
    /\ Yielded
    /\ connOpen
    /\ Len(enq) < MaxFragments
    /\ Len(queue) < 1
    /\ IF sentence # ""
       THEN LET msg == [id |-> Len(enq) + 1, text |-> sentence]
            IN /\ queue' = Append(queue, msg)
               /\ enq' = Append(enq, msg)
       ELSE UNCHANGED <<queue, enq>>
    /\ UNCHANGED <<now, batch_size, sourceVars, stopEvent, mpc, abort,
                   collectorVars, signals, calls, errorSeen>>

\* on_message without the test of the transcript
OnMessageNoFilter(sentence) ==
    /\ Yielded
    /\ connOpen
    /\ Len(enq) < MaxFragments
    /\ LET msg == [id |-> Len(enq) + 1, text |-> sentence]
       IN /\ queue' = Append(queue, msg)
          /\ enq' = Append(enq, msg)
    /\ UNCHANGED <<now, batch_size, sourceVars, stopEvent, mpc, abort,
                   collectorVars, signals, calls, errorSeen>>

\* on_message: a Transcript event of the open connection
OnMessage(sentence) ==
    /\ Yielded
    /\ connOpen
    /\ Len(enq) < MaxFragments
    /\ IF sentence # ""
       THEN LET msg == [id |-> Len(enq) + 1, text |-> sentence]
            IN /\ queue' = Append(queue, msg)
               /\ enq' = Append(enq, msg)
       ELSE UNCHANGED <<queue, enq>>
    /\ UNCHANGED <<now, batch_size, sourceVars, stopEvent, mpc, abort,
                   collectorVars, signals, calls, errorSeen>>

\* on_error that gives up on an Error event and triggers the shutdown
OnErrorShutdown ==
    /\ Yielded
    /\ connOpen
    /\ errorSeen' = TRUE
    /\ srcEvent' = TRUE
    /\ UNCHANGED <<now, batch_size, tpc, micOn, connOpen, handlers, stopEvent,
                   mpc, abort, queue, collectorVars, enq, signals, calls>>

\* on_error: an Error event of the open connection; the error is printed
OnError ==
    /\ Yielded
    /\ connOpen
    /\ errorSeen' = TRUE
    /\ UNCHANGED <<now, batch_size, sourceVars, stopEvent, mpc, abort, queue,
                   collectorVars, enq, signals, calls>>

\* get_transcript.signal_handler
signal_handler == srcEvent' = TRUE

\* a SIGINT or SIGTERM reaches the process: signal_handler while it is
\* installed, the interpreter's default disposition otherwise
Signal(sig) ==
    /\ Alive
    /\ signals < MaxSignals
    /\ signals' = signals + 1
    /\ IF handlers
       THEN /\ signal_handler
            /\ abort' = abort
       ELSE /\ srcEvent' = srcEvent
            /\ abort' = IF sig = "SIGINT" THEN "KeyboardInterrupt"
                        ELSE "terminated"
    /\ UNCHANGED <<now, batch_size, tpc, micOn, connOpen, handlers, stopEvent,
                   mpc, queue, collectorVars, enq, calls, errorSeen>>

\* await shutdown_event.wait() returns; microphone.finish();
\* dg_connection.finish() is awaited
StopMicrophone ==
    /\ Yielded
    /\ tpc = "wait"
    /\ srcEvent
    /\ micOn' = FALSE
    /\ calls' = [calls EXCEPT !.mic_finish = @ + 1]
    /\ tpc' = "closing"
    /\ UNCHANGED <<now, batch_size, connOpen, handlers, srcEvent, stopEvent,
                   mpc, abort, queue, collectorVars, enq, signals, errorSeen>>

\* await dg_connection.finish() returns; the finally block removes the
\* signal handlers and the task completes
CloseConnection ==
    /\ Yielded
    /\ tpc = "closing"
    /\ connOpen' = FALSE
    /\ calls' = [calls EXCEPT !.conn_finish = @ + 1]
    /\ handlers' = FALSE
    /\ tpc' = "done"
    /\ UNCHANGED <<now, batch_size, micOn, srcEvent, stopEvent, mpc, abort,
                   queue, collectorVars, enq, signals, errorSeen>>

\* ---- main_async -----------------------------------------------------------
\* SetStopEvent of a main_async that stops the collector as soon as the
\* signal was handled, without awaiting the transcript task
SetStopEventEarly ==
    /\ Yielded
    /\ mpc = "await_transcript"
    /\ srcEvent
    /\ stopEvent' = TRUE
    /\ calls' = [calls EXCEPT !.stop_set = @ + 1]
    /\ mpc' = "await_process"
    /\ UNCHANGED <<now, batch_size, sourceVars, abort, queue, collectorVars,
                   enq, signals, errorSeen>>

\* SetStopEvent of a main_async that also cancels process_task, ending a
\* post in flight
SetStopEventCancel ==
    /\ Yielded
    /\ mpc = "await_transcript"
    /\ tpc = "done"
    /\ stopEvent' = TRUE
    /\ calls' = [calls EXCEPT !.stop_set = @ + 1]
    /\ mpc' = "await_process"
    /\ cpc' = IF cpc = "post" THEN "done" ELSE cpc
    /\ UNCHANGED <<now, batch_size, sourceVars, abort, queue, buffer, batches,
                   stopSeen, latePoll, enq, signals, errorSeen>>

\* await transcript_task returns; shutdown_event.set(); process_task is
\* awaited
SetStopEvent ==
    /\ Yielded
    /\ mpc = "await_transcript"
    /\ tpc = "done"
    /\ stopEvent' = TRUE
    /\ calls' = [calls EXCEPT !.stop_set = @ + 1]
    /\ mpc' = "await_process"
    /\ UNCHANGED <<now, batch_size, sourceVars, abort, queue, collectorVars,
                   enq, signals, errorSeen>>

\* await transcript_task raises the exception the task ended with;
\* main_async is left through it, run_until_complete raises and main closes
\* the loop
MainRaise ==
    /\ Yielded
    /\ mpc = "await_transcript"
    /\ tpc = "failed"
    /\ mpc' = "raised"
    /\ UNCHANGED <<now, batch_size, sourceVars, stopEvent, abort, queue,
                   collectorVars, enq, signals, calls, errorSeen>>

\* await process_task returns; main_async returns
MainReturn ==
    /\ Alive
    /\ mpc = "await_process"
    /\ cpc = "done"
    /\ mpc' = "returned"
    /\ UNCHANGED <<now, batch_size, sourceVars, stopEvent, abort, queue,
                   collectorVars, enq, signals, calls, errorSeen>>

\* ---- process_queue --------------------------------------------------------
\* while not shutdown_event.is_set()
LoopTop ==
    /\ Alive
    /\ cpc = "top"
    /\ IF stopEvent
       THEN /\ cpc' = "done"
            /\ stopSeen' = [seen |-> TRUE, buffer |-> buffer,
                            nbatches |-> Len(batches)]
       ELSE /\ cpc' = "get"
            /\ stopSeen' = stopSeen
    /\ latePoll' = FALSE
    /\ UNCHANGED <<now, batch_size, sourceVars, stopEvent, mpc, abort, queue,
                   buffer, batches, enq, signals, calls, errorSeen>>

\* the rest of one iteration once the queue wait is over: the flush check
\* and, when it fires, batch construction, reset and the start of the post
FlushCheck(parts) ==
    /\ latePoll' = (parts = <<>> /\ TimedeltaSeconds(now) > batch_size)
    /\ IF length_check(parts, now, batch_size)
       THEN LET full == get_full_transcript(parts, now)
            IN /\ batches' = Append(batches,
                                    [parts |-> parts,
                                     text |-> full.text,
                                     flushed_at |-> now,
                                     requests |-> 1,
                                     outcome |-> "inflight"])
               /\ buffer' = reset(parts)
               /\ cpc' = "post"
       ELSE /\ batches' = batches
            /\ buffer' = parts
            /\ cpc' = "top"

\* GetMessage of a loop that hands the post to a task of its own and goes on
GetMessageDetached ==
    /\ Alive
    /\ cpc \in {"get", "post"}
    /\ queue # <<>>
    /\ queue' = Tail(queue)
    /\ LET message == Head(queue)
       IN FlushCheck(IF message.text # ""
                     THEN add_part(buffer, message, now)
                     ELSE buffer)
    /\ UNCHANGED <<now, batch_size, sourceVars, stopEvent, mpc, abort, enq,
                   signals, calls, stopSeen, errorSeen>>

\* asyncio.wait_for(queue.get(), timeout=0.1) returns a message
GetMessage ==
    /\ Alive
    /\ cpc = "get"
    /\ queue # <<>>
    /\ queue' = Tail(queue)
    /\ LET message == Head(queue)
       IN FlushCheck(IF message.text # ""
                     THEN add_part(buffer, message, now)
                     ELSE buffer)
    /\ UNCHANGED <<now, batch_size, sourceVars, stopEvent, mpc, abort, enq,
                   signals, calls, stopSeen, errorSeen>>

\* GetTimeout of a loop that evaluates the flush predicate only after a
\* message (a continue in the except clause)
GetTimeoutNoCheck ==
    /\ Alive
    /\ cpc = "get"
    /\ queue = <<>>
    /\ cpc' = "top"
    /\ UNCHANGED <<now, batch_size, sourceVars, stopEvent, mpc, abort, queue,
                   buffer, batches, latePoll, enq, signals, calls, stopSeen,
                   errorSeen>>

\* asyncio.wait_for(queue.get(), timeout=0.1) raises TimeoutError
GetTimeout ==
    /\ Alive
    /\ cpc = "get"
    /\ queue = <<>>
    /\ FlushCheck(buffer)
    /\ UNCHANGED <<now, batch_size, sourceVars, stopEvent, mpc, abort, queue,
                   enq, signals, calls, stopSeen, errorSeen>>

\* PostDone with the two except clauses missing: a failed post ends the loop
PostDoneRaise(outcome) ==
    /\ Alive
    /\ cpc = "post"
    /\ batches' = [batches EXCEPT ![Len(batches)].outcome = Report(outcome)]
    /\ cpc' = IF outcome \in Failures THEN "done" ELSE "top"
    /\ UNCHANGED <<now, batch_size, sourceVars, stopEvent, mpc, abort, queue,
                   buffer, enq, signals, calls, stopSeen, latePoll, errorSeen>>

\* PostDone with a retry buffer: the fragments of a failed batch go back
PostDoneRequeue(outcome) ==
    /\ Alive
    /\ cpc = "post"
    /\ batches' = [batches EXCEPT ![Len(batches)].outcome = Report(outcome)]
    /\ buffer' = IF outcome \in Failures THEN Last(batches).parts \o buffer
                 ELSE buffer
    /\ cpc' = "top"
    /\ UNCHANGED <<now, batch_size, sourceVars, stopEvent, mpc, abort, queue,
                   enq, signals, calls, stopSeen, latePoll, errorSeen>>

\* session.post ends: a response, asyncio.TimeoutError or aiohttp.ClientError
PostDone(outcome) ==
    /\ Alive
    /\ cpc = "post"
    /\ batches' = [batches EXCEPT ![Len(batches)].outcome = Report(outcome)]
    /\ cpc' = "top"
    /\ UNCHANGED <<now, batch_size, sourceVars, stopEvent, mpc, abort, queue,
                   buffer, enq, signals, calls, stopSeen, latePoll, errorSeen>>

Next ==
    \/ Tick
    \/ Connect
    \/ ConnectFail
    \/ \E sentence \in {Utterance(Len(enq) + 1), ""} : OnMessage(sentence)
    \/ OnError
    \/ \E sig \in {"SIGINT", "SIGTERM"} : Signal(sig)
    \/ StopMicrophone
    \/ CloseConnection
    \/ SetStopEvent
    \/ MainRaise
    \/ MainReturn
    \/ LoopTop
    \/ GetMessage
    \/ GetTimeout
    \/ \E outcome \in Outcomes : PostDone(outcome)

Spec == Init /\ [][Next]_vars

\* the pipeline while it is running: no signal is delivered and the source
\* connection opens
RunningNext ==
    \/ Tick
    \/ Connect
    \/ \E sentence \in {Utterance(Len(enq) + 1), ""} : OnMessage(sentence)
    \/ OnError
    \/ LoopTop
    \/ GetMessage
    \/ GetTimeout
    \/ \E outcome \in Outcomes : PostDone(outcome)

\* the clock advances, the event loop resumes the collector when its loop
\* test is due or its queue wait is over (a message or the 0.1 s timeout),
\* and a post ends within its 0.5 s timeout
RunningFairness ==
    /\ WF_vars(Tick)
    /\ WF_vars(LoopTop)
    /\ WF_vars(GetMessage)
    /\ WF_vars(GetTimeout)
    /\ WF_vars(\E outcome \in Outcomes : PostDone(outcome))

RunningSpec == Init /\ [][RunningNext]_vars /\ RunningFairness


\* ---- vocabulary of the properties ---------------------------------------
RECURSIVE Flatten(_)
\* the fragments of a sequence of batches, batch after batch
Flatten(bs) == IF bs = <<>> THEN <<>> ELSE Head(bs).parts \o Flatten(Tail(bs))

EmittedIds == PartIds(Flatten(batches))
EnqueuedIds == [i \in 1..Len(enq) |-> enq[i].id]

\* a step that ends one queue wait of the collector (one poll cycle)
Poll == GetMessage \/ GetTimeout
\* that step built a batch
Flushed == Len(batches') = Len(batches) + 1
\* the buffer the flush predicate of that step was evaluated on
PolledBuffer == IF Flushed THEN Last(batches').parts ELSE buffer'
\* the oldest fragment of parts is older than the window, in exact time
PastWindow(parts, t) ==
    /\ parts # <<>>
    /\ t - parts[1].created_at > batch_size * TicksPerSecond

\* main_async has returned
Stopped == mpc = "returned"

\* ---- C1 -------------------------------------------------------------------
\* C1 (partition at stop): once main_async has returned, the fragments of
\* the emitted batches, in emission order, are exactly the fragments that
\* were put on the queue, in arrival order.
C1_PartitionAtStop == Stopped => EmittedIds = EnqueuedIds

\* ---- C2 -------------------------------------------------------------------
\* C2 (shutdown drain): when the collector leaves its loop and its buffer
\* was non-empty at the moment it observed the stop event, exactly one more
\* batch was built after that moment and it holds that whole buffer.
C2_ShutdownDrain ==
    (cpc = "done" /\ stopSeen.buffer # <<>>) =>
        /\ Len(batches) = stopSeen.nbatches + 1
        /\ Last(batches).parts = stopSeen.buffer

\* ---- C3 -------------------------------------------------------------------
\* C3 (window correctness): at every poll cycle a batch is built if and
\* only if the buffer is non-empty and the exact age of its oldest fragment
\* is greater than the window.
C3_WindowCorrectness ==
    [][Poll => (Flushed <=> PastWindow(PolledBuffer, now))]_vars

\* ---- C4 -------------------------------------------------------------------
\* C4 (dispatch isolation): after a post that ended in a timeout or a client
\* error the collector is back in its loop (it leaves the loop only on the
\* stop event), the failing step touches neither buffer nor queue, and every
\* later poll cycle builds the next batch exactly when length_check holds.
C4_AfterFailure ==
    (batches # <<>> /\ Last(batches).outcome = "failed") =>
        /\ cpc \in {"top", "get", "done"}
        /\ cpc = "done" => stopSeen.seen /\ stopEvent
        /\ (cpc = "get" /\ Alive) =>
               IF queue # <<>> THEN ENABLED GetMessage ELSE ENABLED GetTimeout

C4_FailureStep ==
    \A o \in Failures :
        PostDone(o) => cpc' = "top" /\ buffer' = buffer /\ queue' = queue

C4_NextBatch ==
    (Poll /\ batches # <<>> /\ Last(batches).outcome = "failed") =>
        (Flushed <=> length_check(PolledBuffer, now, batch_size))

C4_DispatchIsolation ==
    []C4_AfterFailure /\ [][C4_FailureStep /\ C4_NextBatch]_vars

\* batch 1 failed and batch 2 was built and posted afterwards
C4_Witness ==
    /\ Len(batches) >= 2
    /\ batches[1].outcome = "failed"
    /\ batches[2].requests = 1
    /\ batches[2].parts[1].created_at >= batches[1].flushed_at

\* ---- C5 -------------------------------------------------------------------
\* C5 (graceful shutdown on a signal): whenever a SIGINT or SIGTERM has been
\* delivered, the shutdown was triggered through signal_handler and the
\* process was not ended by the signal; a run that has returned after a
\* signal has stopped the capture, closed the connection, completed the
\* transcript task, set the collector's stop event and left the loop.
C5_SignalGraceful ==
    signals > 0 =>
        /\ abort = "none"
        /\ srcEvent
        /\ Stopped => /\ ~micOn /\ ~connOpen /\ tpc = "done"
                      /\ stopEvent /\ cpc = "done"

\* ---- C6 -------------------------------------------------------------------
\* s is strictly increasing
Increasing(s) == \A i, j \in 1..Len(s) : i < j => s[i] < s[j]
\* s is an initial part of t
IsPrefix(s, t) == Len(s) <= Len(t) /\ SubSeq(t, 1, Len(s)) = s

\* C6 (no fragment twice, order kept, windows disjoint): the fragments of
\* the batches built so far followed by the buffer are pairwise distinct and
\* in dequeue order, inside a batch as well as across batches; a fragment of
\* a later batch was never stamped before a fragment of an earlier one; and
\* the step that builds a batch puts the whole buffer of that moment into
\* it and leaves the buffer empty.
C6_Order ==
    /\ Increasing(EmittedIds \o PartIds(buffer))
    /\ \A m, n \in 1..Len(batches) :
           m < n => \A i \in 1..Len(batches[m].parts),
                       j \in 1..Len(batches[n].parts) :
                        /\ batches[m].parts[i].id < batches[n].parts[j].id
                        /\ batches[m].parts[i].created_at
                               <= batches[n].parts[j].created_at

C6_FlushStep ==
    Flushed => /\ buffer' = <<>>
               /\ IsPrefix(buffer, Last(batches').parts)
               /\ Len(Last(batches').parts) <= Len(buffer) + 1
               /\ SubSeq(batches', 1, Len(batches)) = batches

C6_NoFragmentTwice == []C6_Order /\ [][C6_FlushStep]_vars

\* two batches have been built one after the other
C6_Witness ==
    /\ Len(batches) >= 2
    /\ batches[1].parts # <<>>
    /\ batches[2].parts # <<>>
    /\ buffer = <<>>

\* ---- C7 -------------------------------------------------------------------
\* C7 (idle safety): every batch ever built, and so every request, holds at
\* least one fragment, and a poll cycle that evaluates the flush predicate
\* on an empty buffer builds no batch, whatever the time.
C7_NoEmptyBatch ==
    \A n \in 1..Len(batches) : Len(batches[n].parts) >= 1

C7_EmptyPollNoFlush == (Poll /\ PolledBuffer = <<>>) => ~Flushed

C7_IdleSafety == []C7_NoEmptyBatch /\ [][C7_EmptyPollNoFlush]_vars

\* the collector has just polled on an empty buffer long after the window
\* length and no batch exists
C7_Witness ==
    /\ latePoll
    /\ buffer = <<>>
    /\ batches = <<>>

\* ---- C8 -------------------------------------------------------------------
RECURSIVE Lines(_)
\* the texts one after the other, a newline before every text but the first
Lines(texts) ==
    IF Len(texts) = 0 THEN ""
    ELSE IF Len(texts) = 1 THEN texts[1]
    ELSE Lines(Front(texts)) \o "\n" \o Last(texts)

\* the example of the specification: window 5, "hello" stamped at 0 s,
\* "world" at 2 s, flushed by the poll at 6 s
IsExample(b) ==
    /\ batch_size = 5
    /\ Len(b.parts) = 2
    /\ b.parts[1].text = "hello" /\ b.parts[1].created_at = 0
    /\ b.parts[2].text = "world"
    /\ b.parts[2].created_at = 2 * TicksPerSecond
    /\ b.flushed_at = 6 * TicksPerSecond

\* C8 (batch text): the text of every batch is the texts of its fragments in
\* arrival order with one newline between neighbours; a batch of one
\* fragment has that fragment's text; the batch of the example has the text
\* "hello\nworld"; the buffer is empty right after the flush; and with
\* window 5 a poll at 6 s on "hello" (0 s), "world" (2 s) does flush.
C8_Text ==
    \A n \in 1..Len(batches) :
        LET b == batches[n]
        IN /\ b.text = Lines(PartTexts(b.parts))
           /\ Len(b.parts) = 1 => b.text = b.parts[1].text
           /\ IsExample(b) => b.text = "hello\nworld"

C8_FlushStep ==
    /\ Flushed => buffer' = <<>>
    /\ (Poll /\ batch_size = 5 /\ now = 6 * TicksPerSecond
             /\ Len(PolledBuffer) = 2
             /\ PolledBuffer[1].created_at = 0
             /\ PolledBuffer[2].created_at = 2 * TicksPerSecond)
           => Flushed /\ Last(batches').text = "hello\nworld"

C8_BatchText == []C8_Text /\ [][C8_FlushStep]_vars

\* the example has happened
C8_Witness ==
    /\ batches # <<>>
    /\ IsExample(batches[1])
    /\ batches[1].text = "hello\nworld"
    /\ buffer = <<>>

\* ---- C9 -------------------------------------------------------------------
IdsOf(s) == {s[i].id : i \in 1..Len(s)}

\* C9 (at most once): every batch caused exactly one request; the fragments
\* of a batch whose request failed are in no other batch, not in the buffer
\* and not in the queue; while the request is in flight the buffer is empty
\* and the step that ends it leaves buffer and queue as they are, whatever
\* the outcome.
C9_Dropped ==
    /\ \A n \in 1..Len(batches) : batches[n].requests = 1
    /\ \A n \in 1..Len(batches) :
           batches[n].outcome = "failed" =>
               /\ IdsOf(batches[n].parts) \cap IdsOf(buffer) = {}
               /\ IdsOf(batches[n].parts) \cap IdsOf(queue) = {}
               /\ \A m \in 1..Len(batches) :
                      m # n => IdsOf(batches[n].parts)
                                   \cap IdsOf(batches[m].parts) = {}
    /\ cpc = "post" => buffer = <<>>

C9_PostStep ==
    \A o \in Outcomes :
        PostDone(o) => /\ buffer' = <<>>
                       /\ queue' = queue
                       /\ Len(batches') = Len(batches)
                       /\ Last(batches').requests = 1

C9_AtMostOnce == []C9_Dropped /\ [][C9_PostStep]_vars

\* a batch was dropped after a failed request and the collector went on
\* with a later fragment
C9_Witness ==
    /\ batches # <<>>
    /\ batches[1].outcome = "failed"
    /\ buffer # <<>>
    /\ cpc = "top"

\* ---- C10 ------------------------------------------------------------------
\* C10 (signal idempotence): no teardown step ever runs twice, a run that
\* has returned ran each of them once, and a signal delivered once the
\* teardown has begun changes nothing but the count of signals.
C10_Once ==
    /\ calls.mic_finish <= 1 /\ calls.conn_finish <= 1 /\ calls.stop_set <= 1
    /\ Stopped => /\ calls.mic_finish = 1
                  /\ calls.conn_finish = 1
                  /\ calls.stop_set = 1

C10_LateSignal ==
    (signals' = signals + 1 /\ tpc \in {"closing", "done"}) =>
        UNCHANGED <<now, batch_size, tpc, micOn, connOpen, handlers,
                    srcEvent, stopEvent, mpc, abort, queue, buffer, cpc,
                    batches, enq, calls, stopSeen, latePoll>>

C10_SignalIdempotence == []C10_Once /\ [][C10_LateSignal]_vars

\* ---- C11 ------------------------------------------------------------------
\* C11 (startup failure is fatal before the loop): when opening the source
\* connection has failed, the collector has not entered its loop (it is
\* still before its first loop test and has built nothing), and
\* when the process then exits the collector is not suspended inside an
\* iteration.
C11_StartupFatal ==
    /\ tpc = "failed" => cpc = "top" /\ batches = <<>>
    /\ mpc = "raised" => cpc \notin {"get", "post"}

C12_Suspended ==
    cpc = "post" => /\ ~ENABLED GetMessage
                    /\ ~ENABLED GetTimeout
                    /\ ~ENABLED LoopTop
                    /\ buffer = <<>>

C12_InFlightStep ==
    cpc = "post" => /\ buffer' = buffer
                    /\ IsPrefix(queue, queue')
                    /\ Len(batches') = Len(batches)
                    /\ cpc' \in {"post", "top"}

C13_BatchWithinWindow ==
    \A n \in 1..Len(batches) :
        \A i \in 1..Len(batches[n].parts) :
            batches[n].parts[i].created_at - batches[n].parts[1].created_at
                <= batch_size * TicksPerSecond

C13_AddStep == (GetMessage /\ buffer # <<>>) => ~PastWindow(buffer, now)

C13_FlushBeforeAdd == []C13_BatchWithinWindow /\ [][C13_AddStep]_vars

\* ---- C14 ------------------------------------------------------------------
\* C14 (shutdown ordering): the connection is closed only after the capture
\* was stopped; the collector's stop event is set only when the transcript
\* task has completed, with capture stopped and connection closed, so never
\* while the source can still emit; and from the handled signal until the
\* transcript task completes the collector has not been told to stop and is
\* still in its loop.
C14_Order ==
    /\ calls.conn_finish >= 1 => calls.mic_finish >= 1
    /\ stopEvent => tpc = "done" /\ ~micOn /\ ~connOpen
    /\ connOpen => ~stopEvent
    /\ (srcEvent /\ tpc \in {"wait", "closing"}) =>
           ~stopEvent /\ cpc # "done"

C14_Step ==
    /\ (connOpen /\ ~connOpen') => (~micOn /\ tpc = "closing")
    /\ (~stopEvent /\ stopEvent') => (tpc = "done" /\ tpc' = "done")
    /\ (micOn /\ ~micOn') => (connOpen /\ connOpen')

WithinHorizon(parts) ==
    parts[1].created_at + (batch_size + 1) * TicksPerSecond <= MaxTime

\* C15 (silence flush): while the pipeline is running, whenever the buffer
\* holds a fragment, that fragment is eventually part of a batch, whether
\* or not any further fragment arrives.
C15_SilenceFlush ==
    \A i \in 1..(MaxFragments + 1) :
        (buffer # <<>> /\ WithinHorizon(buffer) /\ i \in IdsOf(buffer))
            ~> (\E n \in 1..Len(batches) : i \in IdsOf(batches[n].parts))

\* every fragment that ever arrived was flushed by a poll cycle that ended
\* in a timeout, after the last of them had been stamped
C15_Witness ==
    /\ Len(batches) = 1
    /\ Len(enq) = Len(batches[1].parts)
    /\ Last(batches[1].parts).created_at < batches[1].flushed_at
    /\ queue = <<>>
    /\ buffer = <<>>

\* ---- C16 ------------------------------------------------------------------
\* C16 (cooperative cancellation): setting the stop event changes nothing
\* of the collector; a request in flight leaves that state only by its own
\* end (response, client error or timeout), also when the stop event is
\* set, and an iteration that has begun its queue wait still ends it; the
\* collector leaves its loop only at the loop test, with the stop event set
\* and no request in flight, and does nothing after that test.
C16_Exit ==
    /\ cpc = "done" =>
           /\ stopSeen.seen /\ stopEvent
           /\ Len(batches) = stopSeen.nbatches
           /\ buffer = stopSeen.buffer
           /\ \A n \in 1..Len(batches) : batches[n].outcome \in Reports
    /\ (stopEvent /\ cpc = "post" /\ Alive) =>
           \A o \in Outcomes : ENABLED PostDone(o)
    /\ (stopEvent /\ cpc = "get" /\ Alive) => ENABLED Poll

C16_Step ==
    /\ (~stopEvent /\ stopEvent') =>
           UNCHANGED <<cpc, buffer, batches, queue, stopSeen>>
    /\ (cpc = "post" /\ cpc' # "post") =>
           /\ cpc' = "top"
           /\ Last(batches').outcome \in Reports
           /\ Len(batches') = Len(batches)
    /\ cpc' = "done" => (cpc = "done" \/ (cpc = "top" /\ stopEvent))
    /\ (cpc = "top" /\ stopEvent) => cpc' \in {"top", "done"}

C16_CooperativeCancel == []C16_Exit /\ [][C16_Step]_vars

\* the stop event is set and the request of the last batch is still in
\* flight
C16_Witness ==
    /\ stopEvent
    /\ cpc = "post"
    /\ Last(batches).outcome = "inflight"
    /\ Alive

\* ---- C17 ------------------------------------------------------------------
NoEmptyText(s) == \A i \in 1..Len(s) : s[i].text # ""

\* C17 (no empty fragment): no fragment in the queue, in the buffer or in a
\* batch has an empty text, no batch text is empty, and an empty transcript
\* leaves the queue as it is.
C17_NonEmpty ==
    /\ NoEmptyText(queue)
    /\ NoEmptyText(enq)
    /\ NoEmptyText(buffer)
    /\ \A n \in 1..Len(batches) :
           NoEmptyText(batches[n].parts) /\ batches[n].text # ""

C17_EmptyTranscript == OnMessage("") => queue' = queue /\ enq' = enq

C17_NoEmptyFragment == []C17_NonEmpty /\ [][C17_EmptyTranscript]_vars

\* fragments have gone through the queue into the buffer and into a batch
C17_Witness ==
    /\ batches # <<>>
    /\ batches[1].parts # <<>>
    /\ queue # <<>> \/ buffer # <<>>

\* ---- C18 ------------------------------------------------------------------
\* C18 (a source error is contained): the step that handles an Error event
\* changes nothing but the record of the error, so queue, buffer and both
\* shutdown events are as before; after it the source still enqueues a
\* transcript when it could before, and the collector is where it was.
C18_ErrorStep ==
    errorSeen' # errorSeen =>
        /\ UNCHANGED <<queue, buffer, srcEvent, stopEvent, batches, cpc, tpc,
                       mpc, abort, connOpen, micOn, handlers, enq>>
        /\ (ENABLED OnMessage(Utterance(Len(enq) + 1)))'
               = ENABLED OnMessage(Utterance(Len(enq) + 1))

C18_AfterError ==
    (errorSeen /\ signals = 0) =>
        /\ ~srcEvent /\ ~stopEvent /\ abort = "none"
        /\ tpc \in {"wait"} /\ connOpen /\ micOn
        /\ cpc \in {"top", "get", "post"}

C18_ErrorContained == []C18_AfterError /\ [][C18_ErrorStep]_vars

\* an error was handled in a run that stayed up and enqueued, collected
\* and flushed a fragment
C18_Witness ==
    /\ errorSeen
    /\ signals = 0
    /\ batches # <<>>
    /\ Len(enq) = 1
    /\ batches[1].parts[1].id = 1

\* ---- C19 ------------------------------------------------------------------
\* C19 (no producer backpressure): as long as the connection is open and
\* the process lives, whenever the event loop runs the source's callback the
\* source can put its next transcript on the queue, whatever the length of
\* the queue and wherever the collector waits; the put appends the fragment
\* to the queue and touches nothing of the collector.
C19_PutEnabled ==
    (Yielded /\ connOpen /\ Len(enq) < MaxFragments) =>
        ENABLED OnMessage(Utterance(Len(enq) + 1))

C19_PutStep ==
    Len(enq') > Len(enq) =>
        /\ Len(enq') = Len(enq) + 1
        /\ queue' = Append(queue, Last(enq'))
        /\ UNCHANGED <<cpc, buffer, batches>>

C19_NoBackpressure == []C19_PutEnabled /\ [][C19_PutStep]_vars

\* the source has put a fragment on a queue that already held one
C19_Witness == Len(queue) >= 2

\* ---- C20 ------------------------------------------------------------------
Fragment(part) == [id |-> part.id, text |-> part.text]
Fragments(s) == [i \in 1..Len(s) |-> Fragment(s[i])]

\* C20 (conservation): while the collector is in its loop, the fragments of
\* the batches built so far, then the buffer, then the queue are exactly the
\* fragments enqueued so far, in enqueue order.
C20_Conservation ==
    cpc # "done" =>
        Fragments(Flatten(batches)) \o Fragments(buffer) \o queue = enq

\* one fragment is in a batch and a later one in the buffer
C20_Witness ==
    /\ batches # <<>>
    /\ buffer # <<>>
    /\ cpc # "done"
====
